---- MODULE Spec2Model ----
(***************************************************************************)
(* Model of auto-claude-ui's project initializer                           *)
(* (src/auto-claude-ui/src/main/project-initializer.ts).                   *)
(*                                                                         *)
(* The state is the part of the filesystem the module touches: the source  *)
(* bundle at sourcePath, the project directory, the installed instance     *)
(* <project>/.auto-claude (with its .version.json sidecar as one of its    *)
(* files), the visible <project>/auto-claude directory, and the clock      *)
(* read by new Date().                                                     *)
(*                                                                         *)
(* A directory tree is a function from relative paths (sequences of entry  *)
(* names) to nodes; the root <<>> is in its domain iff the tree exists.    *)
(* A file's content is a sequence of one-character strings (its bytes);    *)
(* the JSON sidecar is a sequence of lexical tokens (see JSONstringify).   *)
(*                                                                         *)
(* Spec is the module's operations on a project; HashSpec is               *)
(* calculateDirectoryHash on its own, on a tree at dirPath; StoreSpec is    *)
(* the renderer's project store (src/unnamed/part_000, lines 156-335),     *)
(* which reaches the main process through window.electronAPI.              *)
(***************************************************************************)
EXTENDS Integers, Sequences, FiniteSets, TLC

VARIABLES
  source,         \* the tree at sourcePath (empty function: path missing)
  projectExists,  \* existsSync(projectPath)
  visibleExists,  \* existsSync(<project>/auto-claude): the source folder
  installed,      \* the tree at <project>/.auto-claude
  now,            \* the clock read by new Date(); it advances with every call
  last,           \* the call that has just ended: operation, outcome, result
  ghost,          \* history: what has happened to the instance so far
  budget,         \* calls and environment steps left (bounds the model)
  enumeration,    \* the order in which the filesystem enumerates names
  dirPath,        \* the tree at dirPath, for calculateDirectoryHash on its own
  hashed,         \* the calls of calculateDirectoryHash on dirPath so far
  store,          \* the state of useProjectStore in the renderer
  localStorage,   \* localStorage[LAST_SELECTED_PROJECT_KEY]: <<>> or <<id>>
  mainProjects,   \* the projects the main process holds, behind window.electronAPI
  inflight,       \* the calls of the store's async functions that are awaiting
  step,           \* the step of the store's code that has just run
  added           \* ids appended by addProject for which removeProject was not called

vars == <<source, projectExists, visibleExists, installed, now, last, ghost, budget,
          enumeration, dirPath, hashed,
          store, localStorage, mainProjects, inflight, step, added>>

----------------------------------------------------------------------------
(* Bounds of the model *)

\* Calls of the module's operations in one behaviour.
MaxCalls == 3
\* Steps of the environment (bundle releases, user edits) in one behaviour.
MaxEnvSteps == 2

----------------------------------------------------------------------------
(* Paths and names *)

SourcePath == "/opt/auto-claude"
ProjectPath == "/home/u/proj"

\* path.join(dir, name)
join(dir, name) == dir \o "/" \o name

\* Proper prefixes of the names of the model, for suffix tests on names.
NameStems == {"", "m", "m.py", "README", ".env", ".version"}

\* name.endsWith(ext)
endsWith(name, ext) == \E stem \in NameStems : stem \o ext = name

\* pattern.startsWith('*') and pattern.slice(1)
PatternTails == {".pyc", "pecs", "env", "git"}
startsWithStar(pattern) == \E tail \in PatternTails : "*" \o tail = pattern
slice1(pattern) == CHOOSE tail \in PatternTails : "*" \o tail = pattern

EXCLUDE_PATTERNS == <<"__pycache__", ".DS_Store", "*.pyc", ".env", "specs", ".git">>

PRESERVE_ON_UPDATE == <<"specs", ".env">>

shouldExclude(name) ==
  \E i \in 1..Len(EXCLUDE_PATTERNS) :
    LET pattern == EXCLUDE_PATTERNS[i]
    IN IF startsWithStar(pattern)
       THEN endsWith(name, slice1(pattern))
       ELSE name = pattern

shouldPreserve(name) ==
  \E i \in 1..Len(PRESERVE_ON_UPDATE) : PRESERVE_ON_UPDATE[i] = name

----------------------------------------------------------------------------
(* Directory trees *)

Dir == [isDir |-> TRUE, bytes |-> <<>>]
File(bytes) == [isDir |-> FALSE, bytes |-> bytes]

\* No tree at the path.
Missing == <<>>

\* existsSync(path) for a relative path of a tree
existsSync(tree, p) == p \in DOMAIN tree

isDirectory(tree, p) == p \in DOMAIN tree /\ tree[p].isDir

Parent(p) == SubSeq(p, 1, Len(p) - 1)

ChildNames(tree, p) ==
  {q[Len(q)] : q \in {r \in DOMAIN tree : Len(r) = Len(p) + 1 /\ Parent(r) = p}}

Put(tree, p, node) ==
  [q \in DOMAIN tree \cup {p} |-> IF q = p THEN node ELSE tree[q]]

\* An order in which the filesystem enumerates names (readdirSync returns
\* them in the order of the variable enumeration), and the
\* order of String.prototype.localeCompare (punctuation before letters,
\* letters case-insensitively at the first level).
EnumOrder ==
  <<"VERSION", ".version.json", "README.md", "specs", "roadmap", "notes",
    "m.pyc", "m.py", "lib", "ideation", ".gitkeep", ".env.example", ".env",
    "s1">>

LocaleOrder ==
  <<".env", ".env.example", ".gitkeep", ".version.json", "ideation", "lib",
    "m.py", "m.pyc", "notes", "README.md", "roadmap", "s1", "specs",
    "VERSION">>

Rank(order, name) == CHOOSE i \in 1..Len(order) : order[i] = name

RECURSIVE SortedBy(_, _)
SortedBy(order, names) ==
  IF names = {} THEN <<>>
  ELSE LET first == CHOOSE n \in names :
                      \A o \in names : Rank(order, n) <= Rank(order, o)
       IN <<first>> \o SortedBy(order, names \ {first})

\* readdirSync(path, {withFileTypes: true}): the names, in enumeration order
readdirSync(tree, p) == SortedBy(enumeration, ChildNames(tree, p))

\* Whether some component of the path has an excluded name.
HasExcluded(p) == \E i \in 1..Len(p) : shouldExclude(p[i])

\* The tree without its excluded entries and what lies beneath them.
WithoutExcluded(tree) == [p \in {q \in DOMAIN tree : ~HasExcluded(q)} |-> tree[p]]

----------------------------------------------------------------------------
(* File contents, the content hash, the version marker *)

Whitespace == {" ", "\n", "\t"}

RECURSIVE trimStart(_)
trimStart(bytes) ==
  IF bytes # <<>> /\ Head(bytes) \in Whitespace THEN trimStart(Tail(bytes))
  ELSE bytes

RECURSIVE trimEnd(_)
trimEnd(bytes) ==
  IF bytes # <<>> /\ bytes[Len(bytes)] \in Whitespace
  THEN trimEnd(SubSeq(bytes, 1, Len(bytes) - 1))
  ELSE bytes

\* String.prototype.trim
trim(bytes) == trimEnd(trimStart(bytes))

\* The string made of the bytes (readFileSync(path, 'utf-8')).
RECURSIVE Str(_)
Str(bytes) == IF bytes = <<>> THEN "" ELSE Head(bytes) \o Str(Tail(bytes))

\* Faulty variant: the entries are hashed in the order of enumeration.
sortByNothing(entries) == entries

\* entries.sort((a, b) => a.name.localeCompare(b.name))
sortByLocale(entries) ==
  SortedBy(LocaleOrder, {entries[i] : i \in 1..Len(entries)})

\* The bytes processDirectory feeds to hash.update, in order: SHA-256 digests
\* the concatenation of its updates.
RECURSIVE processDirectory(_, _)
RECURSIVE processEntries(_, _, _)
RECURSIVE processEntriesAll(_, _, _)

\* Faulty variant: the hash takes in the excluded entries too.
processEntriesAll(tree, currentPath, entries) ==
  IF entries = <<>> THEN ""
  ELSE LET name == Head(entries)
           fullPath == Append(currentPath, name)
           fed == IF tree[fullPath].isDir
                  THEN ("dir:" \o name) \o processDirectory(tree, fullPath)
                  ELSE ("file:" \o name \o ":" \o ToString(Len(tree[fullPath].bytes)))
                       \o Str(tree[fullPath].bytes)
       IN fed \o processEntriesAll(tree, currentPath, Tail(entries))

processDirectory(tree, currentPath) ==
  IF ~existsSync(tree, currentPath) THEN ""
  ELSE processEntries(tree, currentPath, sortByLocale(readdirSync(tree, currentPath)))

processEntries(tree, currentPath, entries) ==
  IF entries = <<>> THEN ""
  ELSE LET name == Head(entries)
           fullPath == Append(currentPath, name)
           fed == IF shouldExclude(name) THEN ""
                  ELSE IF tree[fullPath].isDir
                       THEN ("dir:" \o name) \o processDirectory(tree, fullPath)
                       ELSE ("file:" \o name \o ":" \o ToString(Len(tree[fullPath].bytes)))
                            \o Str(tree[fullPath].bytes)
       IN fed \o processEntries(tree, currentPath, Tail(entries))

\* hash.digest('hex').slice(0, 16): a digest without collisions, written as
\* the marked input it stands for.
digest(stream) == "sha256(" \o stream \o ")"

calculateDirectoryHash(tree) == digest(processDirectory(tree, <<>>))

readSourceVersion(src) ==
  IF existsSync(src, <<"VERSION">>) THEN Str(trim(src[<<"VERSION">>].bytes))
  ELSE "0.0.0"

----------------------------------------------------------------------------
(* The metadata sidecar *)

SidecarPath == <<".version.json">>

\* new Date().toISOString() at clock value t, and its inverse
toISOString(t) == "T" \o ToString(t)
parseISO(s) == CHOOSE t \in 0..MaxCalls : toISOString(t) = s

VersionMetadata(version, sourceHash, sourcePath, initializedAt, updatedAt) ==
  [version |-> version, sourceHash |-> sourceHash, sourcePath |-> sourcePath,
   initializedAt |-> initializedAt, updatedAt |-> updatedAt]

\* JSON.stringify(metadata, null, 2), as its tokens: the braces and the five
\* values in the order of the fields.
JSONstringify(m) ==
  <<"{", m.version, m.sourceHash, m.sourcePath, m.initializedAt, m.updatedAt, "}">>

\* JSON.parse: <<m>> for the object read, <<>> when it throws a SyntaxError.
JSONparse(bytes) ==
  IF Len(bytes) = 7 /\ bytes[1] = "{" /\ bytes[7] = "}"
  THEN <<VersionMetadata(bytes[2], bytes[3], bytes[4], bytes[5], bytes[6])>>
  ELSE <<>>

\* Faulty variant: a sidecar that does not parse is read as metadata with
\* empty fields instead of null.
readVersionMetadataUnchecked(tree) ==
  IF existsSync(tree, SidecarPath) /\ ~tree[SidecarPath].isDir
  THEN IF JSONparse(tree[SidecarPath].bytes) # <<>>
       THEN JSONparse(tree[SidecarPath].bytes)
       ELSE <<VersionMetadata("", "", "", "", "")>>
  ELSE <<>>

\* <<m>> for the metadata read, <<>> for null.
readVersionMetadata(tree) ==
  IF existsSync(tree, SidecarPath)
  THEN IF tree[SidecarPath].isDir THEN <<>>   \* readFileSync throws, caught
       ELSE JSONparse(tree[SidecarPath].bytes)
  ELSE <<>>

----------------------------------------------------------------------------
(* Writes.  A run of writes is threaded through st = [fs, fault, err]: fs  *)
(* is the destination tree, fault the set of paths that cannot be written  *)
(* during the call (permissions, a full disk), err the message of the      *)
(* exception thrown so far ("": none).                                     *)

Begin(tree, fault) == [fs |-> tree, fault |-> fault, err |-> ""]

Throw(st, message) == [st EXCEPT !.err = message]

Done(st, tree) == [st EXCEPT !.fs = tree]

Prefixes(p) == {SubSeq(p, 1, k) : k \in 0..Len(p)}

\* mkdirSync(path, {recursive: true})
mkdirSync(st, p) ==
  IF st.err # "" THEN st
  ELSE IF p \in st.fault THEN Throw(st, "EACCES")
  ELSE IF \E q \in Prefixes(p) : existsSync(st.fs, q) /\ ~st.fs[q].isDir
       THEN Throw(st, "ENOTDIR")
  ELSE Done(st, [q \in DOMAIN st.fs \cup Prefixes(p) |->
                    IF q \in DOMAIN st.fs THEN st.fs[q] ELSE Dir])

\* writeFileSync(path, data), and the destination side of copyFileSync
writeFileSync(st, p, bytes) ==
  IF st.err # "" THEN st
  ELSE IF p \in st.fault THEN Throw(st, "EACCES")
  ELSE IF ~existsSync(st.fs, Parent(p)) THEN Throw(st, "ENOENT")
  ELSE IF ~st.fs[Parent(p)].isDir THEN Throw(st, "ENOTDIR")
  ELSE IF isDirectory(st.fs, p) THEN Throw(st, "EISDIR")
  ELSE Done(st, Put(st.fs, p, File(bytes)))

copyFileSync(src, srcPath, st, destPath) ==
  writeFileSync(st, destPath, src[srcPath].bytes)

\* Faulty variant: the metadata is never persisted.
writeVersionMetadataNowhere(st, metadata) == st

writeVersionMetadata(st, metadata) ==
  writeFileSync(st, SidecarPath, JSONstringify(metadata))

----------------------------------------------------------------------------
(* The tree synchronizer *)

\* Faulty variant: the data names (specs, .env) are neither excluded nor preserved.
skipEntryCachesOnly(name, isUpdate, destExists) ==
  shouldExclude(name) /\ ~shouldPreserve(name)

\* Faulty variant: the copy loop lacks the exclusion test.
skipEntryPreservedOnly(name, isUpdate, destExists) ==
  isUpdate /\ shouldPreserve(name) /\ destExists

\* The two `continue` tests of the copy loop.
skipEntry(name, isUpdate, destExists) ==
  \/ shouldExclude(name)
  \/ isUpdate /\ shouldPreserve(name) /\ destExists

RECURSIVE copyDirectoryRecursive(_, _, _, _, _)
RECURSIVE copyEntries(_, _, _, _, _, _)

\* Faulty variant: a mirroring copy, which first removes (rmSync) the destination
\* entries that the source directory does not have.
copyDirectoryMirror(src, st, srcDir, destDir, isUpdate) ==
  LET stale(q) == /\ Len(q) > Len(destDir)
                  /\ SubSeq(q, 1, Len(destDir)) = destDir
                  /\ q[Len(destDir) + 1] \notin ChildNames(src, srcDir)
      pruned == Done(st, [q \in {r \in DOMAIN st.fs : ~stale(r)} |-> st.fs[q]])
      made == IF ~existsSync(pruned.fs, destDir) THEN mkdirSync(pruned, destDir)
              ELSE pruned
  IN copyEntries(src, made, srcDir, destDir, readdirSync(src, srcDir), isUpdate)

copyDirectoryRecursive(src, st, srcDir, destDir, isUpdate) ==
  LET made == IF ~existsSync(st.fs, destDir) THEN mkdirSync(st, destDir) ELSE st
  IN copyEntries(src, made, srcDir, destDir, readdirSync(src, srcDir), isUpdate)

copyEntries(src, st, srcDir, destDir, entries, isUpdate) ==
  IF entries = <<>> \/ st.err # "" THEN st
  ELSE LET name == Head(entries)
           srcPath == Append(srcDir, name)
           destPath == Append(destDir, name)
           done == IF skipEntry(name, isUpdate, existsSync(st.fs, destPath)) THEN st
                   ELSE IF src[srcPath].isDir
                        THEN copyDirectoryRecursive(src, st, srcPath, destPath, isUpdate)
                        ELSE copyFileSync(src, srcPath, st, destPath)
       IN copyEntries(src, done, srcDir, destDir, Tail(entries), isUpdate)

----------------------------------------------------------------------------
(* Results *)

InstalledPath == join(ProjectPath, ".auto-claude")

\* An optional field is <<>> when absent and <<value>> when present.
VersionCheckResult(isInitialized, currentVersion, sourceVersion, updateAvailable, sourcePath) ==
  [isInitialized |-> isInitialized, currentVersion |-> currentVersion,
   sourceVersion |-> sourceVersion, updateAvailable |-> updateAvailable,
   sourcePath |-> sourcePath]

InitializationResult(success, error, version, wasUpdate) ==
  [success |-> success, error |-> error, version |-> version, wasUpdate |-> wasUpdate]

Failure(message) == InitializationResult(FALSE, <<message>>, <<>>, <<>>)

SourceNotFound == "Auto-build source not found at: " \o SourcePath
ProjectNotFound == "Project directory not found: " \o ProjectPath
AlreadyInitialized == "Project already has auto-claude initialized (.auto-claude exists)"
NothingToUpdate == "No .auto-claude folder found to update. Initialize the project first."

\* What a call leaves: the installed tree, the exception that escaped it
\* ("": it returned) and the value it returned.
Outcome(tree, err, result) == [fs |-> tree, err |-> err, result |-> result]

NoResult == <<>>

----------------------------------------------------------------------------
(* The operations, as functions of the filesystem, the clock and the       *)
(* paths that cannot be written during the call (fault)                    *)

\* Faulty variant: an uninitialized project is reported as having an update.
NotInitializedUpdatable == VersionCheckResult(FALSE, <<>>, <<>>, TRUE, <<>>)

\* The result for a project without .auto-claude.
NotInitialized == VersionCheckResult(FALSE, <<>>, <<>>, FALSE, <<>>)

\* Faulty variant: metadata is synthesized whenever the source exists.
needsRetroactiveAlways(read, sourceExists) == sourceExists

\* if (!metadata && existsSync(sourcePath))
needsRetroactive(read, sourceExists) == read = <<>> /\ sourceExists

\* Faulty variant: the baseline is the hash of the source.
retroactiveMetadataOfSource(inst, src, t) ==
  VersionMetadata(readSourceVersion(src), calculateDirectoryHash(src),
                  SourcePath, toISOString(t), toISOString(t))

\* The metadata synthesized for an instance that has none.
retroactiveMetadata(inst, src, t) ==
  LET sourceVersion == readSourceVersion(src)
      installedHash == calculateDirectoryHash(inst)
      nowISO == toISOString(t)
  IN VersionMetadata(sourceVersion, installedHash, SourcePath, nowISO, nowISO)

\* Faulty variant: either difference announces an update.
updateAvailableEither(metadata, sourceHash, sourceVersion) ==
  metadata.sourceHash # sourceHash \/ metadata.version # sourceVersion

updateAvailableFor(metadata, sourceHash, sourceVersion) ==
  LET hashDiffers == metadata.sourceHash # sourceHash
      versionDiffers == metadata.version # sourceVersion
  IN hashDiffers /\ versionDiffers

\* Faulty variant: the source is compared without testing that it exists.
checkVersionUnguarded(inst, src, t, fault) ==
  IF ~existsSync(inst, <<>>)
  THEN Outcome(inst, "", NotInitialized)
  ELSE
    LET read == readVersionMetadata(inst)
        retroactive == needsRetroactive(read, existsSync(src, <<>>))
        synthesized == retroactiveMetadata(inst, src, t)
        st == IF retroactive
              THEN writeVersionMetadata(Begin(inst, fault), synthesized)
              ELSE Begin(inst, fault)
        metadata == IF retroactive THEN <<synthesized>> ELSE read
    IN IF st.err # "" THEN Outcome(st.fs, st.err, NoResult)
       ELSE IF metadata = <<>>
       THEN Outcome(st.fs, "",
              VersionCheckResult(TRUE, <<>>, <<>>, FALSE, <<InstalledPath>>))
       ELSE
         Outcome(st.fs, "",
           VersionCheckResult(TRUE, <<metadata[1].version>>, <<readSourceVersion(src)>>,
             updateAvailableFor(metadata[1], calculateDirectoryHash(src),
                                readSourceVersion(src)),
             <<InstalledPath>>))

checkVersion(inst, src, t, fault) ==
  IF ~existsSync(inst, <<>>)
  THEN Outcome(inst, "", NotInitialized)
  ELSE
    LET read == readVersionMetadata(inst)
        retroactive == needsRetroactive(read, existsSync(src, <<>>))
        synthesized == retroactiveMetadata(inst, src, t)
        st == IF retroactive
              THEN writeVersionMetadata(Begin(inst, fault), synthesized)
              ELSE Begin(inst, fault)
        metadata == IF retroactive THEN <<synthesized>> ELSE read
    IN IF st.err # "" THEN Outcome(st.fs, st.err, NoResult)
       ELSE IF metadata = <<>>
       THEN Outcome(st.fs, "",
              VersionCheckResult(TRUE, <<>>, <<>>, FALSE, <<InstalledPath>>))
       ELSE IF ~existsSync(src, <<>>)
       THEN Outcome(st.fs, "",
              VersionCheckResult(TRUE, <<metadata[1].version>>, <<>>, FALSE,
                                 <<InstalledPath>>))
       ELSE
         LET sourceVersion == readSourceVersion(src)
             sourceHash == calculateDirectoryHash(src)
             updateAvailable == updateAvailableFor(metadata[1], sourceHash, sourceVersion)
         IN Outcome(st.fs, "",
              VersionCheckResult(TRUE, <<metadata[1].version>>, <<sourceVersion>>,
                                 updateAvailable, <<InstalledPath>>))

\* Faulty variant: the directory is made without its marker file.
dataDirectoryUnmarked(st, name) ==
  IF ~existsSync(st.fs, <<name>>) THEN mkdirSync(st, <<name>>) ELSE st

\* if (!existsSync(dir)) mkdirSync(dir); writeFileSync(dir/.gitkeep, '')
dataDirectory(st, name) ==
  LET made == IF ~existsSync(st.fs, <<name>>) THEN mkdirSync(st, <<name>>) ELSE st
  IN writeFileSync(made, <<name, ".gitkeep">>, <<>>)

\* The try block of initializeProject, and its catch.
initializeFiles(inst, src, t, fault) ==
    LET copied == copyDirectoryRecursive(src, Begin(inst, fault), <<>>, <<>>, FALSE)
        specs == dataDirectory(copied, "specs")
        roadmap == dataDirectory(specs, "roadmap")
        ideation == dataDirectory(roadmap, "ideation")
        env == IF existsSync(ideation.fs, <<".env.example">>)
                  /\ ~existsSync(ideation.fs, <<".env">>)
               THEN copyFileSync(ideation.fs, <<".env.example">>, ideation, <<".env">>)
               ELSE ideation
        version == readSourceVersion(src)
        sourceHash == calculateDirectoryHash(src)
        written == writeVersionMetadata(env,
                     VersionMetadata(version, sourceHash, SourcePath,
                                     toISOString(t), toISOString(t)))
    IN IF written.err = ""
       THEN Outcome(written.fs, "", InitializationResult(TRUE, <<>>, <<version>>, <<FALSE>>))
       ELSE Outcome(written.fs, "", Failure(written.err))     \* catch (error)

\* Faulty variant: an existing .auto-claude does not stop the initialization.
initializeProjectAgain(inst, src, projExists, visible, t, fault) ==
  IF ~existsSync(src, <<>>) THEN Outcome(inst, "", Failure(SourceNotFound))
  ELSE IF ~projExists THEN Outcome(inst, "", Failure(ProjectNotFound))
  ELSE initializeFiles(inst, src, t, fault)

\* Faulty variant: a visible auto-claude/ directory counts as an installation.
initializeProjectUnlessVisible(inst, src, projExists, visible, t, fault) ==
  IF ~existsSync(src, <<>>) THEN Outcome(inst, "", Failure(SourceNotFound))
  ELSE IF ~projExists THEN Outcome(inst, "", Failure(ProjectNotFound))
  ELSE IF existsSync(inst, <<>>) \/ visible
       THEN Outcome(inst, "", Failure(AlreadyInitialized))
  ELSE initializeFiles(inst, src, t, fault)

\* visible: existsSync(<project>/auto-claude), which the operation reads
\* (sourceExists) and reports to the debug log only.
initializeProject(inst, src, projExists, visible, t, fault) ==
  LET dotExists == existsSync(inst, <<>>)
      sourceExists == visible
  IN IF ~existsSync(src, <<>>) THEN Outcome(inst, "", Failure(SourceNotFound))
     ELSE IF ~projExists THEN Outcome(inst, "", Failure(ProjectNotFound))
     ELSE IF dotExists THEN Outcome(inst, "", Failure(AlreadyInitialized))
     ELSE initializeFiles(inst, src, t, fault)

\* Faulty variant: the recorded hash is that of the updated instance.
updateProjectHashingTarget(inst, src, t, fault) ==
  IF ~existsSync(src, <<>>) THEN Outcome(inst, "", Failure(SourceNotFound))
  ELSE IF ~existsSync(inst, <<>>) THEN Outcome(inst, "", Failure(NothingToUpdate))
  ELSE
    LET copied == copyDirectoryRecursive(src, Begin(inst, fault), <<>>, <<>>, TRUE)
        version == readSourceVersion(src)
        written == writeVersionMetadata(copied,
                     VersionMetadata(version, calculateDirectoryHash(copied.fs),
                                     SourcePath, toISOString(t), toISOString(t)))
    IN IF written.err = ""
       THEN Outcome(written.fs, "", InitializationResult(TRUE, <<>>, <<version>>, <<TRUE>>))
       ELSE Outcome(written.fs, "", Failure(written.err))

updateProject(inst, src, t, fault) ==
  IF ~existsSync(src, <<>>) THEN Outcome(inst, "", Failure(SourceNotFound))
  ELSE IF ~existsSync(inst, <<>>) THEN Outcome(inst, "", Failure(NothingToUpdate))
  ELSE
    LET copied == copyDirectoryRecursive(src, Begin(inst, fault), <<>>, <<>>, TRUE)
        version == readSourceVersion(src)
        sourceHash == calculateDirectoryHash(src)
        existingMetadata == readVersionMetadata(copied.fs)
        initializedAt == IF existingMetadata # <<>>
                            /\ existingMetadata[1].initializedAt # ""
                         THEN existingMetadata[1].initializedAt
                         ELSE toISOString(t)
        written == writeVersionMetadata(copied,
                     VersionMetadata(version, sourceHash, SourcePath,
                                     initializedAt, toISOString(t)))
    IN IF written.err = ""
       THEN Outcome(written.fs, "", InitializationResult(TRUE, <<>>, <<version>>, <<TRUE>>))
       ELSE Outcome(written.fs, "", Failure(written.err))     \* catch (error)

\* Faulty variant: the visible auto-claude/ directory is the fallback.
getAutoBuildPathOrSource(inst, visible) ==
  IF existsSync(inst, <<>>) THEN <<".auto-claude">>
  ELSE IF visible THEN <<"auto-claude">>
  ELSE <<>>

\* <<".auto-claude">>, or <<>> for null
getAutoBuildPath(inst, visible) ==
  LET dotExists == existsSync(inst, <<>>)
      sourceExists == visible
  IN IF dotExists THEN <<".auto-claude">> ELSE <<>>

----------------------------------------------------------------------------
(* The environment: the bundles a release can put at sourcePath, what a    *)
(* user does inside the installed instance                                 *)

Tree(files, dirs) ==
  [p \in {<<>>} \cup dirs \cup DOMAIN files |->
     IF p \in DOMAIN files THEN File(files[p]) ELSE Dir]

\* Release 1: version marker with a trailing newline, a template
\* environment file, and entries of excluded names (specs/, .env).
BundleA ==
  Tree(<<"VERSION">> :> <<"1", "\n">> @@ <<"README.md">> :> <<"a">>
       @@ <<".env.example">> :> <<"e">> @@ <<".env">> :> <<"x">>
       @@ <<"specs", "s1">> :> <<"b">>,
       {<<"specs">>})

\* Release 1 rebuilt: the same version string, other bytes.
BundleB ==
  Tree(<<"VERSION">> :> <<"1">> @@ <<"README.md">> :> <<"a">>
       @@ <<".env.example">> :> <<"e">>,
       {})

\* Release 2: a new version whose marker file has a second line, a code
\* directory with a compiled file, and a roadmap directory shipped with its
\* own marker.
BundleC ==
  Tree(<<"VERSION">> :> <<"2", "\n", "r", "\n">> @@ <<"README.md">> :> <<"c">>
       @@ <<"lib", "m.py">> :> <<"p">> @@ <<"lib", "m.pyc">> :> <<"q">>
       @@ <<"roadmap", ".gitkeep">> :> <<"k">>,
       {<<"lib">>, <<"roadmap">>})

\* Release 2 repackaged: the version marker has moved into roadmap/.
BundleE ==
  Tree(<<"README.md">> :> <<"c">>
       @@ <<"lib", "m.py">> :> <<"p">> @@ <<"lib", "m.pyc">> :> <<"q">>
       @@ <<"roadmap", ".gitkeep">> :> <<"k">>
       @@ <<"roadmap", "VERSION">> :> <<"2", "\n", "r", "\n">>,
       {<<"lib">>, <<"roadmap">>})

\* A bundle without a version marker, which ships a .version.json of its own.
BundleD ==
  Tree(<<"README.md">> :> <<"a">> @@ <<".version.json">> :> <<"{", "}">>
       @@ <<".env.example">> :> <<"e">> @@ <<"specs", "s1">> :> <<"b">>,
       {<<"specs">>})

\* The releases, oldest first.
Releases == <<BundleA, BundleB, BundleC, BundleD>>

Bundles == {Releases[i] : i \in 1..Len(Releases)}

\* Whether bundle b is a later release than the tree at sourcePath.
Newer(b, current) ==
  \E i, j \in 1..Len(Releases) : i < j /\ Releases[i] = current /\ Releases[j] = b

\* Files a user writes inside the instance.
UserFiles ==
  <<"notes">> :> <<"n">> @@ <<".env">> :> <<"k">> @@ <<"specs", "s1">> :> <<"u">>

\* A sidecar that does not parse.
Malformed == <<"{">>

----------------------------------------------------------------------------
(* The renderer's project store.  Its actions are functions of w, the      *)
(* state object of the store together with the localStorage entry          *)
(* LAST_SELECTED_PROJECT_KEY; null and an absent entry are <<>>, an id is  *)
(* <<id>>.                                                                 *)

ProjectIds == {"a", "b"}

\* Two of the keys of ProjectSettings, and the settings of a new project.
SettingKeys == {"model", "memoryBackend"}

DefaultSettings == [key \in SettingKeys |-> "default"]

\* The project the main process creates for a path (one id per path).
Project(id) == [id |-> id, settings |-> DefaultSettings]

\* { ...object, ...updates }
spread(object, updates) ==
  [key \in DOMAIN object \cup DOMAIN updates |->
     IF key \in DOMAIN updates THEN updates[key] ELSE object[key]]

InitialState ==
  [projects |-> <<>>, selectedProjectId |-> <<>>, isLoading |-> FALSE, error |-> <<>>]

Window(state, storage) == [state |-> state, storage |-> storage]

setProjects(w, projects) == [w EXCEPT !.state.projects = projects]

store_addProject(w, project) == [w EXCEPT !.state.projects = Append(@, project)]

\* Faulty variant: the selection and its localStorage entry are dropped
\* whichever project is removed.
store_removeProjectDeselecting(w, projectId) ==
  Window([w.state EXCEPT !.projects = SelectSeq(@, LAMBDA p : p.id # projectId),
                         !.selectedProjectId = <<>>],
         <<>>)

store_removeProject(w, projectId) ==
  LET isSelectedProject == w.state.selectedProjectId = <<projectId>>
  IN Window([w.state EXCEPT
               !.projects = SelectSeq(@, LAMBDA p : p.id # projectId),
               !.selectedProjectId = IF isSelectedProject THEN <<>> ELSE @],
            IF isSelectedProject THEN <<>> ELSE w.storage)     \* removeItem

store_updateProject(w, projectId, updates) ==
  [w EXCEPT !.state.projects =
     [i \in 1..Len(@) |-> IF @[i].id = projectId THEN spread(@[i], updates) ELSE @[i]]]

selectProject(w, projectId) ==
  Window([w.state EXCEPT !.selectedProjectId = projectId],
         IF projectId # <<>> THEN projectId     \* setItem
         ELSE <<>>)                             \* removeItem

setLoading(w, isLoading) == [w EXCEPT !.state.isLoading = isLoading]

setError(w, error) == [w EXCEPT !.state.error = error]

\* state.projects.find((p) => p.id === state.selectedProjectId): <<>> is
\* undefined, <<p>> the first project of the list with the selected id.
getSelectedProject(state) ==
  LET found == SelectSeq(state.projects, LAMBDA p : <<p.id>> = state.selectedProjectId)
  IN IF found = <<>> THEN <<>> ELSE <<found[1]>>

\* What a call of window.electronAPI settles with: an IPCResult, or a
\* rejection with an Error.  data is <<>> when absent and <<projects>> when
\* present, a list of projects for getProjects and the list of the one
\* project for addProject.
Ok(data) == [rejected |-> FALSE, success |-> TRUE, data |-> data, error |-> <<>>]
Refused == [rejected |-> FALSE, success |-> FALSE, data |-> <<>>, error |-> <<>>]
Rejected == [rejected |-> TRUE, success |-> FALSE, data |-> <<>>, error |-> <<"ipc">>]

\* result.error || fallback, and the message of the catch clause
ErrorOf(result, fallback) ==
  IF result.rejected THEN result.error
  ELSE IF result.error # <<>> THEN result.error ELSE <<fallback>>

\* Faulty variant: the first project is selected whatever localStorage holds.
restoreSelectionFirst(w, data) == selectProject(w, <<data[1].id>>)

\* The restore step of loadProjects (lines 249-256).
restoreSelection(w, data) ==
  LET lastSelectedId == w.storage
      lastExists == /\ lastSelectedId # <<>>
                    /\ \E i \in 1..Len(data) : data[i].id = lastSelectedId[1]
  IN IF lastExists THEN selectProject(w, lastSelectedId)
     ELSE selectProject(w, <<data[1].id>>)

\* loadProjects before its await: snapshot is useProjectStore.getState().
loadProjects_begin(w) == setError(setLoading(w, TRUE), <<>>)

\* Faulty variant: the selection is restored whether or not a project was
\* selected.
loadProjects_resumeRestoring(w, snapshot, result) ==
  LET settled ==
        IF ~result.rejected /\ result.success /\ result.data # <<>>
        THEN LET data == result.data[1]
                 loaded == setProjects(w, data)
             IN IF Len(data) > 0 THEN restoreSelection(loaded, data) ELSE loaded
        ELSE setError(w, ErrorOf(result, "Failed to load projects"))
  IN setLoading(settled, FALSE)

\* loadProjects after its await, with the state object read at its entry.
loadProjects_resume(w, snapshot, result) ==
  LET settled ==
        IF ~result.rejected /\ result.success /\ result.data # <<>>
        THEN LET data == result.data[1]
                 loaded == setProjects(w, data)
             IN IF snapshot.selectedProjectId = <<>> /\ Len(data) > 0
                THEN restoreSelection(loaded, data)
                ELSE loaded
        ELSE setError(w, ErrorOf(result, "Failed to load projects"))
  IN setLoading(settled, FALSE)

\* addProject after its await.
addProject_resume(w, result) ==
  IF ~result.rejected /\ result.success /\ result.data # <<>>
  THEN LET project == result.data[1][1]
       IN selectProject(store_addProject(w, project), <<project.id>>)
  ELSE setError(w, ErrorOf(result, "Failed to add project"))

\* removeProject after its await.
removeProject_resume(w, projectId, result) ==
  IF ~result.rejected /\ result.success THEN store_removeProject(w, projectId)
  ELSE w

\* updateProjectSettings after its await, with the state object read at its
\* entry: store.projects is the list of that object.
updateProjectSettings_resume(w, snapshot, projectId, settings, result) ==
  IF ~result.rejected /\ result.success
  THEN LET found == SelectSeq(snapshot.projects, LAMBDA p : p.id = projectId)
       IN IF found # <<>>
          THEN store_updateProject(w, projectId,
                                   [settings |-> spread(found[1].settings, settings)])
          ELSE w
  ELSE w

\* const store = useProjectStore.getState(): the state object at the entry
\* of the function, as far as the function reads its fields after that
\* (loadProjects reads store.selectedProjectId, updateProjectSettings reads
\* store.projects; addProject and removeProject only call its actions,
\* which act on the current state).
getState(op, state) ==
  IF op = "loadProjects"
  THEN [InitialState EXCEPT !.selectedProjectId = state.selectedProjectId]
  ELSE IF op = "updateProjectSettings"
  THEN [InitialState EXCEPT !.projects = state.projects]
  ELSE InitialState

\* A call that awaits: the function, its arguments (<<>>: none), the state
\* object it read at its entry, the result once the main process has
\* answered (<<>>: not yet), and overlapped: the sets of setting keys of the
\* updateProjectSettings calls for the same project that have returned true
\* while this one was awaiting.
Awaiting(op, arg, state) ==
  [op |-> op, arg |-> arg, store |-> getState(op, state), result |-> <<>>,
   overlapped |-> {}]

\* step: the function whose code has just run ("none": the last step was
\* not a step of the store's code), the call it belongs to, and the state
\* and the localStorage entry before it.
NoStep ==
  [op |-> "none", phase |-> "none", call |-> Awaiting("none", <<>>, InitialState),
   before |-> Window(InitialState, <<>>)]

----------------------------------------------------------------------------
(* The state machine *)

\* last: the operation that has just ended, whether it returned or threw,
\* its result, the installed tree as it was before the call (pre) and the
\* clock value the call read (at).  It is NoCall when the last step was not
\* a call, so that source and installed are what the call read and left.
NoCall == [op |-> "none", outcome |-> "none", result |-> NoResult, pre |-> Missing,
           at |-> 0]

\* No call of calculateDirectoryHash on dirPath yet.
NoHashes == [first |-> <<>>, again |-> <<>>]

\* ghost: external - the instance or its sidecar was made or changed by
\* something other than this module; ioFailed - a call ended in an I/O
\* error; initializedAt - the initializedAt written by a successful
\* initializeProject; synthesized - the metadata written by the retroactive
\* synthesis of checkVersion, while nothing else has written the sidecar.
NoHistory == [external |-> FALSE, ioFailed |-> FALSE, initializedAt |-> <<>>,
              synthesized |-> <<>>]

\* The renderer has no part in the behaviour.
StoreUnused ==
  /\ store = InitialState
  /\ localStorage = <<>>
  /\ mainProjects = <<>>
  /\ inflight = {}
  /\ step = NoStep
  /\ added = {}

StoreFrame == UNCHANGED <<store, localStorage, mainProjects, inflight, step, added>>

Init ==
  /\ source = BundleA
  /\ projectExists \in BOOLEAN
  /\ visibleExists \in {v \in BOOLEAN : v => projectExists}
  /\ installed = Missing
  /\ now = 0
  /\ last = NoCall
  /\ ghost = NoHistory
  /\ budget = [calls |-> MaxCalls, env |-> MaxEnvSteps]
  /\ enumeration = EnumOrder
  /\ dirPath = Missing
  /\ hashed = NoHashes
  /\ StoreUnused

\* Whether a result reports an exception caught by the operation.
IsIOFailure(out) ==
  \/ out.err # ""
  \/ /\ out.result.success = FALSE
     /\ out.result.error \notin
          {<<SourceNotFound>>, <<ProjectNotFound>>, <<AlreadyInitialized>>,
           <<NothingToUpdate>>}

\* The I/O failures of a call: none, the copy of one file of the bundle
\* fails (after the entries enumerated before it were copied), or the
\* sidecar cannot be written.
SidecarChanged(before, after) ==
  \/ existsSync(before, SidecarPath) # existsSync(after, SidecarPath)
  \/ existsSync(before, SidecarPath) /\ before[SidecarPath] # after[SidecarPath]

Faults == {{}, {<<"README.md">>}, {SidecarPath}}

Called(op, out) ==
  /\ installed' = out.fs
  /\ last' = [op |-> op, outcome |-> IF out.err = "" THEN "returned" ELSE "threw",
              result |-> out.result, pre |-> installed, at |-> now]
  /\ budget' = [budget EXCEPT !.calls = @ - 1]
  /\ now' = now + 1
  /\ UNCHANGED <<source, projectExists, visibleExists, enumeration, dirPath, hashed>>
  /\ StoreFrame

CheckVersion ==
  /\ budget.calls > 0
  /\ \E fault \in Faults :
       LET out == checkVersion(installed, source, now, fault)
           first == /\ ghost.synthesized = <<>>
                    /\ out.err = ""
                    /\ existsSync(out.fs, SidecarPath)
                    /\ out.fs # installed
       IN /\ Called("checkVersion", out)
          /\ ghost' = [ghost EXCEPT
                         !.ioFailed = @ \/ out.err # "",
                         !.synthesized = IF first THEN readVersionMetadata(out.fs) ELSE @]

InitializeProject ==
  /\ budget.calls > 0
  /\ \E fault \in Faults :
       LET out == initializeProject(installed, source, projectExists, visibleExists,
                                    now, fault)
       IN /\ Called("initializeProject", out)
          /\ ghost' = [ghost EXCEPT
                         !.ioFailed = @ \/ IsIOFailure(out),
                         !.initializedAt = IF out.result.success
                                           THEN <<toISOString(now)>> ELSE @,
                         !.synthesized = IF SidecarChanged(installed, out.fs)
                                         THEN <<>> ELSE @]

UpdateProject ==
  /\ budget.calls > 0
  /\ \E fault \in Faults :
       LET out == updateProject(installed, source, now, fault)
       IN /\ Called("updateProject", out)
          /\ ghost' = [ghost EXCEPT
                         !.ioFailed = @ \/ IsIOFailure(out),
                         !.synthesized = IF SidecarChanged(installed, out.fs)
                                         THEN <<>> ELSE @]

GetAutoBuildPath ==
  /\ budget.calls > 0
  /\ Called("getAutoBuildPath",
            Outcome(installed, "", getAutoBuildPath(installed, visibleExists)))
  /\ UNCHANGED ghost

EnvStep ==
  /\ budget.env > 0
  /\ budget' = [budget EXCEPT !.env = @ - 1]
  /\ last' = NoCall
  /\ UNCHANGED <<projectExists, visibleExists, now, enumeration, dirPath, hashed>>
  /\ StoreFrame

\* A later release replaces the bundle at sourcePath, or the bundle is
\* removed.
EnvRelease ==
  /\ EnvStep
  /\ existsSync(source, <<>>)
  /\ \E b \in Bundles \cup {Missing} :
       /\ b = Missing \/ Newer(b, source)
       /\ source' = b
  /\ UNCHANGED <<installed, ghost>>

\* Release 2 is repackaged in place.
EnvRepackage ==
  /\ EnvStep
  /\ source = BundleC
  /\ source' = BundleE
  /\ UNCHANGED <<installed, ghost>>

\* The user works inside the instance: notes, secrets in .env, a spec.
EnvUserWrite ==
  /\ EnvStep
  /\ existsSync(installed, <<>>)
  /\ installed' =
       [p \in DOMAIN installed
               \cup {q \in DOMAIN UserFiles : isDirectory(installed, Parent(q))} |->
          IF p \in DOMAIN UserFiles THEN File(UserFiles[p]) ELSE installed[p]]
  /\ installed' # installed
  /\ UNCHANGED <<source, ghost>>

\* A legacy or manual install: a copy of a bundle made without this module.
EnvManualInstall ==
  /\ EnvStep
  /\ projectExists
  /\ ~existsSync(installed, <<>>)
  /\ \E b \in {BundleA, BundleC} : installed' = b
  /\ ghost' = [ghost EXCEPT !.external = TRUE, !.synthesized = <<>>]
  /\ UNCHANGED source

\* The sidecar is damaged from outside: it no longer parses.
EnvDamageSidecar ==
  /\ EnvStep
  /\ existsSync(installed, SidecarPath)
  /\ installed' = Put(installed, SidecarPath, File(Malformed))
  /\ installed' # installed
  /\ ghost' = [ghost EXCEPT !.external = TRUE, !.synthesized = <<>>]
  /\ UNCHANGED source

Next ==
  \/ CheckVersion
  \/ InitializeProject
  \/ UpdateProject
  \/ GetAutoBuildPath
  \/ EnvRelease
  \/ EnvRepackage
  \/ EnvUserWrite
  \/ EnvManualInstall
  \/ EnvDamageSidecar

Spec == Init /\ [][Next]_vars

----------------------------------------------------------------------------
(* calculateDirectoryHash on its own: a tree at dirPath, the order in      *)
(* which the filesystem enumerates it, and two calls, between which the    *)
(* enumeration order and the excluded entries of the tree can change       *)

HashNames == {".env", "lib", "m.py"}

\* Every order in which the filesystem can enumerate those names.
Enumerations ==
  {o \in [1..Cardinality(HashNames) -> HashNames] :
     \A i, j \in DOMAIN o : i # j => o[i] # o[j]}

\* Trees of entries that are not excluded: a module inside lib/, and a
\* module beside an empty lib/.
HashBases ==
  {Tree(<<"lib", "m.py">> :> <<"p">>, {<<"lib">>}),
   Tree(<<"m.py">> :> <<"p">>, {<<"lib">>})}

\* Excluded entries at the root: none, an environment file (two contents),
\* a directory of that name with a file in it; and one level down.
RootExcluded ==
  {<<>>,
   <<".env">> :> File(<<"x">>),
   <<".env">> :> File(<<"y">>),
   <<".env">> :> Dir @@ <<".env", "m.py">> :> File(<<"p">>)}

LibExcluded == {<<>>, <<"lib", ".env">> :> File(<<"x">>)}

HashTrees == {b @@ r @@ l : b \in HashBases, r \in RootExcluded, l \in LibExcluded}

HashInit ==
  /\ source = Missing
  /\ projectExists = FALSE
  /\ visibleExists = FALSE
  /\ installed = Missing
  /\ now = 0
  /\ last = NoCall
  /\ ghost = NoHistory
  /\ budget = [calls |-> 0, env |-> 0]
  /\ enumeration \in Enumerations
  /\ dirPath \in HashTrees
  /\ hashed = NoHashes
  /\ StoreUnused

HashFrame ==
  /\ UNCHANGED <<source, projectExists, visibleExists, installed, now, last, ghost, budget>>
  /\ StoreFrame

\* A call of calculateDirectoryHash(dirPath): the first, or the one after.
CalculateDirectoryHash ==
  /\ hashed.again = <<>>
  /\ LET call == [dirPath |-> dirPath, enumeration |-> enumeration,
                  hash |-> calculateDirectoryHash(dirPath)]
     IN hashed' = IF hashed.first = <<>> THEN [hashed EXCEPT !.first = <<call>>]
                  ELSE [hashed EXCEPT !.again = <<call>>]
  /\ UNCHANGED <<enumeration, dirPath>>
  /\ HashFrame

BetweenCalls == hashed.first # <<>> /\ hashed.again = <<>>

\* The filesystem enumerates in another order from now on.
Reenumerate ==
  /\ BetweenCalls
  /\ enumeration' \in Enumerations \ {enumeration}
  /\ UNCHANGED <<dirPath, hashed>>
  /\ HashFrame

\* Excluded entries are added to the tree, removed from it or changed.
TouchExcluded ==
  /\ BetweenCalls
  /\ \E t \in HashTrees :
       /\ t # dirPath
       /\ WithoutExcluded(t) = WithoutExcluded(dirPath)
       /\ dirPath' = t
  /\ UNCHANGED <<enumeration, hashed>>
  /\ HashFrame

\* Entries that are not excluded are moved, added or removed.
Restructure ==
  /\ BetweenCalls
  /\ \E t \in HashTrees :
       /\ WithoutExcluded(t) # WithoutExcluded(dirPath)
       /\ dirPath' = t
  /\ UNCHANGED <<enumeration, hashed>>
  /\ HashFrame

HashNext ==
  \/ CalculateDirectoryHash
  \/ Reenumerate
  \/ TouchExcluded
  \/ Restructure

HashSpec == HashInit /\ [][HashNext]_vars

----------------------------------------------------------------------------
(* The renderer's project store: the user selects, adds and removes        *)
(* projects and reloads the window; each async function runs up to its     *)
(* await, the main process answers the request, and the function resumes   *)
(* with the answer.  Requests are answered and resumed in any order.       *)

\* The lists the main process can hold when the window opens.
StoredProjects == {<<>>, <<Project("a")>>, <<Project("a"), Project("b")>>}

StoreInit ==
  /\ source = Missing
  /\ projectExists = FALSE
  /\ visibleExists = FALSE
  /\ installed = Missing
  /\ now = 0
  /\ last = NoCall
  /\ ghost = NoHistory
  /\ budget = [calls |-> MaxCalls, env |-> MaxEnvSteps]
  /\ enumeration = EnumOrder
  /\ dirPath = Missing
  /\ hashed = NoHashes
  /\ store = InitialState
  /\ localStorage \in {<<>>} \cup {<<id>> : id \in ProjectIds}
  /\ mainProjects \in StoredProjects
  /\ inflight = {}
  /\ step = NoStep
  /\ added = {}

RendererFrame ==
  UNCHANGED <<source, projectExists, visibleExists, installed, now, last, ghost,
              enumeration, dirPath, hashed>>

Ids(projects) == {projects[i].id : i \in 1..Len(projects)}

\* The code of function op has run on behalf of call, up to its await
\* ("begin"), from its await to its end ("resume") or as a whole ("sync"),
\* and has left w.
Ran(op, phase, call, w) ==
  /\ store' = w.state
  /\ localStorage' = w.storage
  /\ step' = [op |-> op, phase |-> phase, call |-> call,
              before |-> Window(store, localStorage)]

\* A call by the user interface.
UserCall ==
  /\ budget.calls > 0
  /\ budget' = [budget EXCEPT !.calls = @ - 1]
  /\ RendererFrame

\* store.selectProject(projectId) for a listed project, or null
SelectProject ==
  /\ UserCall
  /\ \E projectId \in {<<>>} \cup {<<id>> : id \in Ids(store.projects)} :
       Ran("selectProject", "sync", Awaiting("selectProject", projectId, store),
           selectProject(Window(store, localStorage), projectId))
  /\ UNCHANGED <<mainProjects, inflight, added>>

\* loadProjects() up to await window.electronAPI.getProjects()
LoadProjects ==
  /\ UserCall
  /\ LET call == Awaiting("loadProjects", <<>>, store)
     IN /\ Ran("loadProjects", "begin", call,
               loadProjects_begin(Window(store, localStorage)))
        /\ inflight' = inflight \cup {call}
  /\ UNCHANGED <<mainProjects, added>>

\* addProject(projectPath) up to await window.electronAPI.addProject(projectPath)
AddProject ==
  /\ UserCall
  /\ \E projectPath \in ProjectIds :
       LET call == Awaiting("addProject", <<projectPath>>, store)
       IN /\ Ran("addProject", "begin", call, Window(store, localStorage))
          /\ inflight' = inflight \cup {call}
  /\ UNCHANGED <<mainProjects, added>>

\* removeProject(projectId), for a listed project, up to
\* await window.electronAPI.removeProject(projectId)
RemoveProject ==
  /\ UserCall
  /\ \E projectId \in Ids(store.projects) :
       LET call == Awaiting("removeProject", <<projectId>>, store)
       IN /\ Ran("removeProject", "begin", call, Window(store, localStorage))
          /\ inflight' = inflight \cup {call}
          /\ added' = added \ {projectId}
  /\ UNCHANGED mainProjects

\* The main process answers a request.
Answered(call, result) ==
  /\ call.result = <<>>
  /\ inflight' = (inflight \ {call}) \cup {[call EXCEPT !.result = <<result>>]}
  /\ step' = NoStep
  /\ UNCHANGED <<store, localStorage, added, budget>>
  /\ RendererFrame

ElectronGetProjects ==
  \E call \in inflight :
    /\ call.op = "loadProjects"
    /\ Answered(call, Ok(<<mainProjects>>))
    /\ UNCHANGED mainProjects

\* The project of the path is created unless the main process has it.
ElectronAddProject ==
  \E call \in inflight :
    /\ call.op = "addProject"
    /\ LET held == SelectSeq(mainProjects, LAMBDA p : p.id = call.arg[1])
       IN IF held # <<>>
          THEN /\ Answered(call, Ok(<<<<held[1]>>>>))
               /\ UNCHANGED mainProjects
          ELSE /\ Answered(call, Ok(<<<<Project(call.arg[1])>>>>))
               /\ mainProjects' = Append(mainProjects, Project(call.arg[1]))

ElectronRemoveProject ==
  \E call \in inflight :
    /\ call.op = "removeProject"
    /\ Answered(call, Ok(<<>>))
    /\ mainProjects' = SelectSeq(mainProjects, LAMBDA p : p.id # call.arg[1])

\* The request fails: success is false, or the promise rejects.
ElectronFails ==
  \E call \in inflight, result \in {Refused, Rejected} :
    /\ Answered(call, result)
    /\ UNCHANGED mainProjects

\* An awaiting function resumes with the answer and runs to its end.
Resumed(call) ==
  /\ call.result # <<>>
  /\ inflight' = inflight \ {call}
  /\ UNCHANGED <<mainProjects, budget>>
  /\ RendererFrame

LoadProjectsResume ==
  \E call \in inflight :
    /\ call.op = "loadProjects"
    /\ Resumed(call)
    /\ Ran("loadProjects", "resume", call,
           loadProjects_resume(Window(store, localStorage), call.store, call.result[1]))
    /\ UNCHANGED added

AddProjectResume ==
  \E call \in inflight :
    /\ call.op = "addProject"
    /\ Resumed(call)
    /\ Ran("addProject", "resume", call,
           addProject_resume(Window(store, localStorage), call.result[1]))
    /\ added' = IF call.result[1].success THEN added \cup {call.arg[1]} ELSE added

RemoveProjectResume ==
  \E call \in inflight :
    /\ call.op = "removeProject"
    /\ Resumed(call)
    /\ Ran("removeProject", "resume", call,
           removeProject_resume(Window(store, localStorage), call.arg[1], call.result[1]))
    /\ UNCHANGED added

\* updateProjectSettings(projectId, settings), for a listed project and one
\* setting, up to await window.electronAPI.updateProjectSettings(...)
UpdateProjectSettings ==
  /\ UserCall
  /\ \E projectId \in Ids(store.projects), key \in SettingKeys :
       LET call == Awaiting("updateProjectSettings",
                            <<projectId, [k \in {key} |-> "chosen"]>>, store)
       IN /\ Ran("updateProjectSettings", "begin", call, Window(store, localStorage))
          /\ inflight' = inflight \cup {call}
  /\ UNCHANGED <<mainProjects, added>>

\* The main process merges the settings into those of its project.
ElectronUpdateProjectSettings ==
  \E call \in inflight :
    /\ call.op = "updateProjectSettings"
    /\ call.arg[1] \in Ids(mainProjects)
    /\ Answered(call, Ok(<<>>))
    /\ mainProjects' =
         [i \in 1..Len(mainProjects) |->
            IF mainProjects[i].id = call.arg[1]
            THEN [mainProjects[i] EXCEPT !.settings = spread(@, call.arg[2])]
            ELSE mainProjects[i]]

\* The calls for the same project that are still awaiting note the keys of
\* a call that returns true.
UpdateProjectSettingsResume ==
  \E call \in inflight :
    /\ call.op = "updateProjectSettings"
    /\ call.result # <<>>
    /\ inflight' =
         {IF /\ other.op = "updateProjectSettings"
             /\ other.arg[1] = call.arg[1]
             /\ call.result[1].success
          THEN [other EXCEPT !.overlapped = @ \cup {DOMAIN call.arg[2]}]
          ELSE other : other \in inflight \ {call}}
    /\ UNCHANGED <<mainProjects, budget, added>>
    /\ RendererFrame
    /\ Ran("updateProjectSettings", "resume", call,
           updateProjectSettings_resume(Window(store, localStorage), call.store,
                                        call.arg[1], call.arg[2], call.result[1]))

\* The window is reloaded: the store is created anew, the awaiting calls
\* are gone, localStorage stays.
Reload ==
  /\ budget.env > 0
  /\ budget' = [budget EXCEPT !.env = @ - 1]
  /\ store' = InitialState
  /\ inflight' = {}
  /\ step' = NoStep
  /\ added' = {}
  /\ UNCHANGED <<localStorage, mainProjects>>
  /\ RendererFrame

StoreNext ==
  \/ SelectProject
  \/ LoadProjects
  \/ AddProject
  \/ RemoveProject
  \/ UpdateProjectSettings
  \/ ElectronGetProjects
  \/ ElectronAddProject
  \/ ElectronRemoveProject
  \/ ElectronUpdateProjectSettings
  \/ ElectronFails
  \/ LoadProjectsResume
  \/ AddProjectResume
  \/ RemoveProjectResume
  \/ UpdateProjectSettingsResume
  \/ Reload

StoreSpec == StoreInit /\ [][StoreNext]_vars

----------------------------------------------------------------------------
(* Properties *)

Files(tree) == {p \in DOMAIN tree : ~tree[p].isDir}

\* q is p or lies beneath p
Beneath(p, q) == Len(q) >= Len(p) /\ SubSeq(q, 1, Len(p)) = p

Returned(op) == last.op = op /\ last.outcome = "returned"

\* The call was made with no I/O ahead of it: a precondition failed.
PreconditionFailed ==
  \/ /\ last.op = "initializeProject"
     /\ \/ ~existsSync(source, <<>>)
        \/ ~projectExists
        \/ existsSync(last.pre, <<>>)
  \/ /\ last.op = "updateProject"
     /\ \/ ~existsSync(source, <<>>)
        \/ ~existsSync(last.pre, <<>>)

\* A file of the instance that the bundle does not have is the same after
\* the call.
KeptByUpdate(p) == p \in DOMAIN installed /\ installed[p] = last.pre[p]

\* C1 as stated: after updateProject (success or failure), every file that
\* was in .auto-claude and not in the bundle is still there, byte-identical,
\* the .version.json sidecar included.
C1_UpdateNeverChangesForeignFiles ==
  last.op = "updateProject" =>
    \A p \in Files(last.pre) : p \notin DOMAIN source => KeptByUpdate(p)

\* C1 amended: every such file is still present after updateProject, and
\* byte-identical unless it is the sidecar, which updateProject rewrites.
C1_UpdateNeverDeletes ==
  last.op = "updateProject" =>
    \A p \in Files(last.pre) :
      p \notin DOMAIN source =>
        /\ p \in Files(installed)
        /\ p # SidecarPath => KeptByUpdate(p)

C1_Witness ==
  /\ Returned("updateProject")
  /\ last.result.success
  /\ SidecarPath \in Files(last.pre) \ DOMAIN source
  /\ <<"notes">> \in Files(last.pre) \ DOMAIN source
  /\ <<"ideation", ".gitkeep">> \in Files(last.pre) \ DOMAIN source

\* C2: an entry of .auto-claude whose name is preserved (specs, .env), at
\* any level, is the same after updateProject, with everything beneath it,
\* and nothing is added beneath it, whatever the bundle has under that name.
C2_UpdatePreserves ==
  last.op = "updateProject" =>
    \A p \in DOMAIN last.pre :
      (p # <<>> /\ shouldPreserve(p[Len(p)])) =>
        /\ \A q \in DOMAIN last.pre : Beneath(p, q) => KeptByUpdate(q)
        /\ \A q \in DOMAIN installed : Beneath(p, q) => q \in DOMAIN last.pre

C2_Witness ==
  /\ Returned("updateProject")
  /\ last.result.success
  /\ \A p \in {<<".env">>, <<"specs", "s1">>} :
       /\ p \in Files(last.pre) /\ p \in Files(source)
       /\ last.pre[p] # source[p]
       /\ installed[p] = last.pre[p]

\* C3: initializeProject with a missing source, a missing project or an
\* existing .auto-claude, and updateProject with a missing source or without
\* .auto-claude, return {success: false, error} and change nothing.
C3_PreconditionFailuresMutateNothing ==
  PreconditionFailed =>
    /\ last.outcome = "returned"
    /\ ~last.result.success
    /\ last.result.error # <<>>
    /\ installed = last.pre

\* The second initializeProject on a project the first one initialized.
C3_Witness ==
  /\ Returned("initializeProject")
  /\ ghost.initializedAt # <<>>
  /\ readVersionMetadata(last.pre) # <<>>
  /\ last.result.error = <<AlreadyInitialized>>

\* C4: with readable metadata and an existing source, checkVersion reports
\* an update iff the hash of the source differs from metadata.sourceHash and
\* the version of the source differs from metadata.version.
C4_UpdateAvailableIffBothDiffer ==
  (Returned("checkVersion") /\ readVersionMetadata(last.pre) # <<>>
     /\ existsSync(source, <<>>)) =>
    LET metadata == readVersionMetadata(last.pre)[1]
    IN last.result.updateAvailable <=>
         /\ calculateDirectoryHash(source) # metadata.sourceHash
         /\ readSourceVersion(source) # metadata.version

\* Only the version differs, and no update is reported.
C4_Witness ==
  /\ Returned("checkVersion")
  /\ readVersionMetadata(last.pre) # <<>>
  /\ existsSync(source, <<>>)
  /\ calculateDirectoryHash(source) = readVersionMetadata(last.pre)[1].sourceHash
  /\ readSourceVersion(source) # readVersionMetadata(last.pre)[1].version
  /\ ~last.result.updateAvailable

\* The instance was made and written by this module's calls alone.
OwnInstance == ~ghost.external

C6_InitializedAtNeverChanges ==
  (OwnInstance /\ ~ghost.ioFailed /\ ghost.initializedAt # <<>>) =>
    LET read == readVersionMetadata(installed)
    IN /\ read # <<>>
       /\ read[1].initializedAt = ghost.initializedAt[1]
       /\ parseISO(read[1].updatedAt) >= parseISO(read[1].initializedAt)
       /\ (Returned("updateProject") /\ last.result.success) =>
            read[1].updatedAt = toISOString(last.at)

\* C7: no call ends by throwing to the caller.
C7_NoOperationThrows == last.outcome # "threw"

\* C8: without .auto-claude, checkVersion returns exactly
\* {isInitialized: false, updateAvailable: false} and writes nothing,
\* whatever the source holds and whether or not auto-claude/ exists.
C8_UninitializedCheck ==
  (last.op = "checkVersion" /\ ~existsSync(last.pre, <<>>)) =>
    /\ last.outcome = "returned"
    /\ last.result = VersionCheckResult(FALSE, <<>>, <<>>, FALSE, <<>>)
    /\ installed = last.pre

C8_Witness ==
  /\ Returned("checkVersion")
  /\ ~existsSync(last.pre, <<>>)
  /\ visibleExists
  /\ existsSync(source, <<>>)

\* C9: the first checkVersion on an instance without sidecar (source
\* present) writes one; every later checkVersion leaves it as written and
\* returns the currentVersion of the first, whatever the source's version
\* marker has become.
C9_SynthesizedOnce ==
  /\ (Returned("checkVersion") /\ existsSync(last.pre, <<>>)
        /\ ~existsSync(last.pre, SidecarPath) /\ existsSync(source, <<>>)) =>
       /\ readVersionMetadata(installed) # <<>>
       /\ last.result.currentVersion = <<readVersionMetadata(installed)[1].version>>
  /\ ghost.synthesized # <<>> =>
       /\ readVersionMetadata(installed) = ghost.synthesized
       /\ Returned("checkVersion") =>
            last.result.currentVersion = <<ghost.synthesized[1].version>>

\* A later checkVersion, after the source's version marker changed.
C9_Witness ==
  /\ Returned("checkVersion")
  /\ ghost.synthesized # <<>>
  /\ existsSync(last.pre, SidecarPath)
  /\ existsSync(source, <<>>)
  /\ readSourceVersion(source) # ghost.synthesized[1].version
  /\ last.result.currentVersion = <<ghost.synthesized[1].version>>

\* The call found .auto-claude without readable metadata, and the source.
Synthesizing ==
  /\ Returned("checkVersion")
  /\ existsSync(last.pre, <<>>)
  /\ readVersionMetadata(last.pre) = <<>>
  /\ existsSync(source, <<>>)

\* C10: the sidecar that checkVersion synthesizes holds the version marker
\* of the source, the hash of the installed tree as it was before the
\* write (not that of the source), the source path given, and
\* initializedAt = updatedAt.
C10_RetroactiveBaselineIsInstalledTree ==
  Synthesizing =>
    LET read == readVersionMetadata(installed)
    IN /\ read # <<>>
       /\ read[1].version = readSourceVersion(source)
       /\ read[1].sourceHash = calculateDirectoryHash(last.pre)
       /\ read[1].sourcePath = SourcePath
       /\ read[1].initializedAt = read[1].updatedAt
       /\ read[1].updatedAt = toISOString(last.at)
       /\ installed = Put(last.pre, SidecarPath, File(JSONstringify(read[1])))

\* The installed tree and the source hash differently; the old sidecar was
\* there and did not parse.
C10_Witness ==
  /\ Synthesizing
  /\ existsSync(last.pre, SidecarPath)
  /\ calculateDirectoryHash(last.pre) # calculateDirectoryHash(source)

----------------------------------------------------------------------------
(* Exclusion (C11) *)

\* The tree with other excluded entries: a .env and a compiled file in each
\* of its directories, and a specs directory with a spec in it.
SeedExcluded(tree) ==
  LET base == WithoutExcluded(tree)
      dirs == {p \in DOMAIN base : base[p].isDir}
      seeds == {Append(p, n) : p \in dirs, n \in {".env", "m.pyc"}}
      specs == IF dirs = {} THEN {} ELSE {<<"specs">>}
      spec == IF dirs = {} THEN {} ELSE {<<"specs", "s1">>}
  IN [q \in DOMAIN base \cup seeds \cup specs \cup spec |->
        IF q \in specs THEN Dir
        ELSE IF q \in seeds \cup spec THEN File(<<"z">>)
        ELSE base[q]]

\* Bundles that differ from the tree in excluded entries only.
ExcludedVariants(tree) == {tree, WithoutExcluded(tree), SeedExcluded(tree)}

\* The outcome of the call that has just ended, had it found src at
\* sourcePath and the given paths unwritable.
Sync(op, src, fault) ==
  IF op = "initializeProject"
  THEN initializeProject(last.pre, src, projectExists, visibleExists, last.at, fault)
  ELSE updateProject(last.pre, src, last.at, fault)

\* C11: initializeProject and updateProject leave the same installed tree
\* (sidecar version and sourceHash included) and return the same result for
\* any two bundles that differ only in entries of excluded names, at any
\* depth, whatever the I/O failures of the call; so the installed tree
\* after any sequence of calls does not depend on those entries.
C11_ExcludedEntriesNeverFlow ==
  last.op \in {"initializeProject", "updateProject"} =>
    \A fault \in Faults :
      LET outcome == Sync(last.op, source, fault)
      IN \A v \in ExcludedVariants(source) \ {source} :
           Sync(last.op, v, fault) = outcome

\* An update from a bundle with a compiled file in a subdirectory.
C11_Witness ==
  /\ Returned("updateProject") /\ last.result.success
  /\ <<"lib", "m.pyc">> \in DOMAIN source
  /\ <<"lib", "m.py">> \in DOMAIN installed
  /\ <<"lib", "m.pyc">> \notin DOMAIN installed
  /\ Cardinality(ExcludedVariants(source)) = 3

\* An initialization from a bundle with .env and specs/ of its own.
C11_WitnessInitialize ==
  /\ Returned("initializeProject") /\ last.result.success
  /\ <<"specs", "s1">> \in DOMAIN source
  /\ <<"specs", "s1">> \notin DOMAIN installed
  /\ installed[<<".env">>] # source[<<".env">>]

----------------------------------------------------------------------------
(* The content hash (C12, C13) *)

TwoCalls == hashed.first # <<>> /\ hashed.again # <<>>

\* The names of a directory in the order a call enumerated them.
EnumeratedAs(call, p) == SortedBy(call.enumeration, ChildNames(call.dirPath, p))

\* C12: two trees that differ only in entries of excluded names (added,
\* removed or changed, at any depth) have the same calculateDirectoryHash.
C12_HashIgnoresExcluded ==
  (TwoCalls /\ WithoutExcluded(hashed.first[1].dirPath)
                = WithoutExcluded(hashed.again[1].dirPath)) =>
    hashed.first[1].hash = hashed.again[1].hash

\* Between the calls an excluded file was added one level down, and an
\* excluded directory with a file in it was removed at the root.
C12_Witness ==
  /\ TwoCalls
  /\ <<"lib", ".env">> \notin DOMAIN hashed.first[1].dirPath
  /\ <<"lib", ".env">> \in DOMAIN hashed.again[1].dirPath
  /\ <<".env", "m.py">> \in DOMAIN hashed.first[1].dirPath
  /\ <<".env">> \notin DOMAIN hashed.again[1].dirPath
  /\ hashed.first[1].hash = hashed.again[1].hash

\* The content of an excluded file changed between the calls.
C12_WitnessChanged ==
  /\ TwoCalls
  /\ <<".env">> \in Files(hashed.first[1].dirPath)
  /\ <<".env">> \in Files(hashed.again[1].dirPath)
  /\ hashed.first[1].dirPath[<<".env">>] # hashed.again[1].dirPath[<<".env">>]
  /\ hashed.first[1].hash = hashed.again[1].hash

\* C13: two calls of calculateDirectoryHash on the same tree return the
\* same fingerprint, in whatever order the filesystem enumerated the
\* children of each directory during each call.
C13_HashOrderIndependent ==
  (TwoCalls /\ hashed.first[1].dirPath = hashed.again[1].dirPath) =>
    hashed.first[1].hash = hashed.again[1].hash

\* The same tree, its root enumerated in two different orders.
C13_Witness ==
  /\ TwoCalls
  /\ hashed.first[1].dirPath = hashed.again[1].dirPath
  /\ <<"m.py">> \in DOMAIN hashed.first[1].dirPath
  /\ EnumeratedAs(hashed.first[1], <<>>) # EnumeratedAs(hashed.again[1], <<>>)
  /\ hashed.first[1].hash = hashed.again[1].hash

\* A repeated call: the same tree and the same enumeration.
C13_WitnessRepeated ==
  /\ TwoCalls
  /\ hashed.first[1].dirPath = hashed.again[1].dirPath
  /\ hashed.first[1].enumeration = hashed.again[1].enumeration

----------------------------------------------------------------------------
(* Initialization end to end (C14) *)

\* initializeProject was called on an existing project without
\* .auto-claude, from a bundle with README.md, .env.example and specs/.
FreshInitialize ==
  /\ last.op = "initializeProject"
  /\ projectExists
  /\ ~existsSync(last.pre, <<>>)
  /\ {<<"README.md">>, <<".env.example">>} \subseteq Files(source)
  /\ isDirectory(source, <<"specs">>)

\* The content of the bundle's version marker, "0.0.0" without one.
MarkerOf(src) ==
  IF <<"VERSION">> \in Files(src) THEN Str(trim(src[<<"VERSION">>].bytes)) ELSE "0.0.0"

\* C14: such a call returns success when no I/O fails, and a successful one
\* leaves README.md and .env.example with the bundle's content, a .env with
\* the content of .env.example, a specs/ directory holding the empty marker
\* file and nothing from the bundle's specs/, and a sidecar whose version is
\* the bundle's version marker ("0.0.0" without a marker).
C14_InitializeEndToEnd ==
  FreshInitialize =>
    /\ last.outcome = "returned"
    /\ initializeProject(last.pre, source, projectExists, visibleExists,
                         last.at, {}).result.success
    /\ last.result.success =>
         /\ installed[<<"README.md">>] = source[<<"README.md">>]
         /\ installed[<<".env.example">>] = source[<<".env.example">>]
         /\ <<".env">> \in Files(installed)
         /\ installed[<<".env">>] = source[<<".env.example">>]
         /\ isDirectory(installed, <<"specs">>)
         /\ {p \in DOMAIN installed : Beneath(<<"specs">>, p)}
              = {<<"specs">>, <<"specs", ".gitkeep">>}
         /\ installed[<<"specs", ".gitkeep">>] = File(<<>>)
         /\ readVersionMetadata(installed) # <<>>
         /\ readVersionMetadata(installed)[1].version = MarkerOf(source)
         /\ last.result.version = <<MarkerOf(source)>>

\* The bundle has a .env and a spec of its own, and a version marker.
C14_Witness ==
  /\ FreshInitialize /\ Returned("initializeProject") /\ last.result.success
  /\ <<"specs", "s1">> \in Files(source)
  /\ <<".env">> \in Files(source)
  /\ source[<<".env">>] # source[<<".env.example">>]
  /\ readVersionMetadata(installed)[1].version = "1"

\* The bundle has no version marker.
C14_WitnessNoMarker ==
  /\ FreshInitialize /\ Returned("initializeProject") /\ last.result.success
  /\ <<"VERSION">> \notin DOMAIN source
  /\ readVersionMetadata(installed)[1].version = "0.0.0"

----------------------------------------------------------------------------
(* The managed data directories (C15) *)

\* The directories initializeProject makes sure of.
ManagedDirectories == {"specs", "roadmap", "ideation"}

\* The copy step made the directory: the bundle ships it under a name that
\* is not excluded.
MadeByCopy(d) == isDirectory(source, <<d>>) /\ ~shouldExclude(d)

\* C15: after a successful initializeProject, a managed data directory that
\* the copy step made holds every file the bundle has in it, a .gitkeep of
\* the bundle included, with the copied content; one that the copy step did
\* not make is there with an empty .gitkeep.
C15_CopiedDataDirectoriesLeftAsIs ==
  (Returned("initializeProject") /\ last.result.success) =>
    \A d \in ManagedDirectories :
      IF MadeByCopy(d)
      THEN \A p \in Files(source) :
             (Beneath(<<d>>, p) /\ ~HasExcluded(p)) =>
               p \in Files(installed) /\ installed[p] = source[p]
      ELSE /\ isDirectory(installed, <<d>>)
           /\ <<d, ".gitkeep">> \in Files(installed)
           /\ installed[<<d, ".gitkeep">>] = File(<<>>)

----------------------------------------------------------------------------
(* The visible auto-claude/ directory (C16, C17) *)

\* C16: getAutoBuildPath returns a path iff .auto-claude exists, that path
\* is ".auto-claude", and it is never "auto-claude", whether or not the
\* visible auto-claude/ directory exists.
C16_InstallPathOnlyIfInstalled ==
  last.op = "getAutoBuildPath" =>
    /\ last.outcome = "returned"
    /\ last.result # <<>> <=> existsSync(installed, <<>>)
    /\ last.result \in {<<>>, <<".auto-claude">>}
    /\ last.result # <<"auto-claude">>
    /\ installed = last.pre

\* Only the visible auto-claude/ exists, and null is returned.
C16_Witness ==
  /\ Returned("getAutoBuildPath")
  /\ visibleExists
  /\ ~existsSync(installed, <<>>)
  /\ last.result = <<>>

\* Both directories exist.
C16_WitnessBoth ==
  /\ Returned("getAutoBuildPath")
  /\ visibleExists
  /\ existsSync(installed, <<>>)
  /\ last.result = <<".auto-claude">>

\* The outcome of the call that has just ended, had existsSync of
\* <project>/auto-claude been visible.  checkVersion and updateProject do
\* not read that path.
WithVisible(op, visible, fault) ==
  IF op = "initializeProject"
  THEN initializeProject(last.pre, source, projectExists, visible, last.at, fault)
  ELSE IF op = "updateProject" THEN updateProject(last.pre, source, last.at, fault)
  ELSE checkVersion(last.pre, source, last.at, fault)

\* What checkVersion, initializeProject and updateProject return and leave
\* does not depend on the presence of auto-claude/, which alone neither
\* makes the project initialized nor blocks its initialization.
VisibleIsNoInstallation ==
  last.op \in {"checkVersion", "initializeProject", "updateProject"} =>
    /\ \A fault \in Faults :
         WithVisible(last.op, TRUE, fault) = WithVisible(last.op, FALSE, fault)
    /\ (visibleExists /\ ~existsSync(last.pre, <<>>) /\ existsSync(source, <<>>)) =>
         /\ last.outcome = "returned"
         /\ last.op = "checkVersion" => ~last.result.isInitialized
         /\ last.op = "initializeProject" =>
              last.result.error # <<AlreadyInitialized>>
         /\ last.op = "updateProject" => last.result.error = <<NothingToUpdate>>

\* C17: the visible auto-claude/ directory is never an installation target:
\* the three operations behave the same with and without it, and no step
\* creates or removes it.
C17_VisibleNeverInstallationTarget ==
  /\ []VisibleIsNoInstallation
  /\ [][visibleExists' = visibleExists]_vars

\* A project with auto-claude/ and without .auto-claude is initialized.
C17_Witness ==
  /\ Returned("initializeProject") /\ last.result.success
  /\ visibleExists
  /\ ~existsSync(last.pre, <<>>)
  /\ existsSync(installed, SidecarPath)

----------------------------------------------------------------------------
(* The sync postcondition (C18) *)

\* Some component of the path has a preserved name and was in the
\* destination before the call.
PreservedBefore(p) ==
  \E k \in 1..Len(p) : shouldPreserve(p[k]) /\ SubSeq(p, 1, k) \in DOMAIN last.pre

\* The file is in the instance with the content it has in the bundle.
Synced(p) == p \in Files(installed) /\ installed[p] = source[p]

\* C18: after a successful updateProject, every file of the bundle whose
\* path has no excluded component, and no preserved component that was in
\* the destination before the call, is in the instance with the bundle's
\* content; after a successful initializeProject, so is every file of the
\* bundle whose path has no excluded component.
C18_SyncedFilesEqualSource ==
  /\ (Returned("updateProject") /\ last.result.success) =>
       \A p \in Files(source) :
         (~HasExcluded(p) /\ ~PreservedBefore(p)) => Synced(p)
  /\ (Returned("initializeProject") /\ last.result.success) =>
       \A p \in Files(source) : ~HasExcluded(p) => Synced(p)

----------------------------------------------------------------------------
(* The update notification (C19) *)

\* The sidecar of the instance records the version marker and the hash of
\* the bundle.
InSync(inst, src) ==
  /\ existsSync(src, <<>>)
  /\ readVersionMetadata(inst) # <<>>
  /\ readVersionMetadata(inst)[1].version = readSourceVersion(src)
  /\ readVersionMetadata(inst)[1].sourceHash = calculateDirectoryHash(src)

\* A successful initializeProject or updateProject leaves the instance in
\* sync with the bundle, and checkVersion on an instance in sync reports the
\* bundle's version as current and no update.
SyncClearsNotification ==
  /\ (last.op \in {"initializeProject", "updateProject"}
        /\ last.outcome = "returned" /\ last.result.success) =>
       InSync(installed, source)
  /\ (last.op = "checkVersion" /\ InSync(last.pre, source)) =>
       /\ last.outcome = "returned"
       /\ last.result =
            VersionCheckResult(TRUE, <<readSourceVersion(source)>>,
                               <<readSourceVersion(source)>>, FALSE, <<InstalledPath>>)
       /\ installed = last.pre

\* What checkVersion reports for the instance: an initialized project
\* without update (the clock enters the timestamps it may write only).
NoUpdateReported(inst, src) ==
  LET result == checkVersion(inst, src, now, {}).result
  IN result.isInitialized /\ ~result.updateAvailable

----------------------------------------------------------------------------
(* Malformed metadata (C20) *)

\* The sidecar is there and JSON.parse rejects it.
Unparsable(inst) ==
  SidecarPath \in Files(inst) /\ JSONparse(inst[SidecarPath].bytes) = <<>>

WithoutSidecar(inst) == [p \in DOMAIN inst \ {SidecarPath} |-> inst[p]]

\* The outcome of the operation on the instance, the rest as in the call
\* that has just ended.
Run(op, inst, fault) ==
  IF op = "initializeProject"
  THEN initializeProject(inst, source, projectExists, visibleExists, last.at, fault)
  ELSE IF op = "updateProject" THEN updateProject(inst, source, last.at, fault)
  ELSE checkVersion(inst, source, last.at, fault)

\* C20: a sidecar that does not parse is read as absent; checkVersion with
\* an existing source then replaces it by the synthesized metadata and
\* returns isInitialized: true; updateProject succeeds and writes
\* initializedAt = updatedAt = now; and every operation returns or throws
\* exactly as it does on the same instance without sidecar, so that no
\* failure is due to the malformed sidecar.
C20_MalformedMetadataIsAbsent ==
  (last.op \in {"checkVersion", "initializeProject", "updateProject"}
     /\ Unparsable(last.pre)) =>
    /\ readVersionMetadata(last.pre) = <<>>
    /\ (Returned("checkVersion") /\ existsSync(source, <<>>)) =>
         /\ readVersionMetadata(installed)
              = <<retroactiveMetadata(last.pre, source, last.at)>>
         /\ last.result.isInitialized
    /\ (Returned("updateProject") /\ last.result.success) =>
         /\ readVersionMetadata(installed) # <<>>
         /\ readVersionMetadata(installed)[1].initializedAt = toISOString(last.at)
         /\ readVersionMetadata(installed)[1].updatedAt = toISOString(last.at)
    /\ existsSync(source, <<>>) =>
         /\ updateProject(last.pre, source, last.at, {}).result.success
         /\ checkVersion(last.pre, source, last.at, {}).err = ""
    /\ \A fault \in Faults :
         LET malformed == Run(last.op, last.pre, fault)
             absent == Run(last.op, WithoutSidecar(last.pre), fault)
         IN malformed.err = absent.err /\ malformed.result = absent.result

\* checkVersion found a damaged sidecar and replaced it.
C20_Witness ==
  /\ Returned("checkVersion")
  /\ Unparsable(last.pre)
  /\ last.pre[SidecarPath] = File(Malformed)
  /\ existsSync(source, <<>>)
  /\ readVersionMetadata(installed) # <<>>
  /\ last.result.isInitialized

\* updateProject found a damaged sidecar and succeeded.
C20_WitnessUpdate ==
  /\ Returned("updateProject") /\ last.result.success
  /\ Unparsable(last.pre)
  /\ ghost.initializedAt # <<>>
  /\ readVersionMetadata(installed)[1].initializedAt # ghost.initializedAt[1]

----------------------------------------------------------------------------
(* checkVersion without a source (C21) *)

\* C21: with .auto-claude present and no source at sourcePath, checkVersion
\* writes nothing and returns isInitialized: true, updateAvailable: false,
\* no sourceVersion, and as currentVersion the version of a readable
\* sidecar, none without one.
C21_CheckWithoutSource ==
  (last.op = "checkVersion" /\ existsSync(last.pre, <<>>)
     /\ ~existsSync(source, <<>>)) =>
    LET stored == IF SidecarPath \in Files(last.pre)
                  THEN JSONparse(last.pre[SidecarPath].bytes) ELSE <<>>
    IN /\ last.outcome = "returned"
       /\ installed = last.pre
       /\ last.result.isInitialized
       /\ ~last.result.updateAvailable
       /\ last.result.sourceVersion = <<>>
       /\ last.result.currentVersion =
            IF stored = <<>> THEN <<>> ELSE <<stored[1].version>>

\* The sidecar records version 1 and the source is gone.
C21_Witness ==
  /\ Returned("checkVersion")
  /\ ~existsSync(source, <<>>)
  /\ readVersionMetadata(last.pre) # <<>>
  /\ last.result.currentVersion = <<"1">>
  /\ last.result.sourceVersion = <<>>

\* A legacy instance without sidecar, and the source is gone: no sidecar is
\* written.
C21_WitnessLegacy ==
  /\ Returned("checkVersion")
  /\ ~existsSync(source, <<>>)
  /\ existsSync(last.pre, <<>>)
  /\ ~existsSync(installed, SidecarPath)
  /\ last.result.currentVersion = <<>>

----------------------------------------------------------------------------
(* The version marker (C22) *)

\* The bytes before the first line break.
RECURSIVE firstLine(_)
firstLine(bytes) ==
  IF bytes = <<>> \/ Head(bytes) = "\n" THEN <<>>
  ELSE <<Head(bytes)>> \o firstLine(Tail(bytes))

\* The first line of the VERSION file, trimmed; "0.0.0" without the file.
FirstLineOfMarker(src) ==
  IF <<"VERSION">> \in Files(src) THEN Str(trim(firstLine(src[<<"VERSION">>].bytes)))
  ELSE "0.0.0"

\* C22: the version of a bundle is the trimmed first line of its VERSION
\* file ("0.0.0" without the file); initializeProject and updateProject
\* store and return that value, and checkVersion reports it as
\* sourceVersion.
C22_VersionIsFirstLine ==
  /\ (last.op \in {"initializeProject", "updateProject"}
        /\ last.outcome = "returned" /\ last.result.success) =>
       /\ last.result.version = <<FirstLineOfMarker(source)>>
       /\ readVersionMetadata(installed) # <<>>
       /\ readVersionMetadata(installed)[1].version = FirstLineOfMarker(source)
  /\ (Returned("checkVersion") /\ last.result.sourceVersion # <<>>) =>
       last.result.sourceVersion = <<FirstLineOfMarker(source)>>

----------------------------------------------------------------------------
(* A failed update (C26) *)

\* Whether the copy step of updateProject throws under the fault.
CopyFailed(inst, src, fault) ==
  copyDirectoryRecursive(src, Begin(inst, fault), <<>>, <<>>, TRUE).err # ""

\* The currentVersion a checkVersion without I/O failure reports.
ReportedVersion(inst, src, t) == checkVersion(inst, src, t, {}).result.currentVersion

\* C26: when the copy step of updateProject fails partway, the call returns
\* success:false, the sidecar is exactly what it was before the call, and a
\* following checkVersion reports the currentVersion it reported before.
C26_FailedUpdateLeavesSidecar ==
  (last.op = "updateProject" /\ existsSync(last.pre, <<>>)
     /\ existsSync(source, <<>>)) =>
    \A fault \in Faults :
      CopyFailed(last.pre, source, fault) =>
        LET out == updateProject(last.pre, source, last.at, fault)
        IN /\ out.err = ""
           /\ ~out.result.success
           /\ ~SidecarChanged(last.pre, out.fs)
           /\ ReportedVersion(out.fs, source, last.at + 1)
                = ReportedVersion(last.pre, source, last.at)

----------------------------------------------------------------------------
(* A failed initialize (C27) *)

\* The instance was left by an initializeProject that failed with an I/O
\* error: it exists, no initializeProject has succeeded and nothing else
\* has made it.
LeftByFailedInitialize(inst) ==
  /\ existsSync(inst, <<>>)
  /\ ghost.initializedAt = <<>>
  /\ ~ghost.external

\* checkVersion has synthesized metadata for the tree it found and reports
\* an initialized project without update.
SynthesizedFor(inst) ==
  /\ last.outcome = "returned"
  /\ readVersionMetadata(installed) = <<retroactiveMetadata(inst, source, last.at)>>
  /\ last.result.isInitialized
  /\ ~last.result.updateAvailable

C27_WitnessCheck ==
  /\ Returned("checkVersion")
  /\ LeftByFailedInitialize(last.pre)
  /\ <<"README.md">> \notin Files(last.pre)
  /\ ~existsSync(last.pre, SidecarPath)
  /\ SynthesizedFor(last.pre)

\* The source was removed after the failed initializeProject.
C27_WitnessSourceGone ==
  /\ Returned("initializeProject")
  /\ LeftByFailedInitialize(last.pre)
  /\ ghost.ioFailed
  /\ last.result.error = <<SourceNotFound>>

----------------------------------------------------------------------------
(* The hash test of checkVersion (C28) *)

\* The metadata checkVersion found was written by initializeProject or by
\* updateProject: it is readable and has not been synthesized.
WrittenBySync(inst) == readVersionMetadata(inst) # <<>> /\ ghost.synthesized = <<>>

\* C28: for metadata written by initializeProject or updateProject, a change
\* of the source's version string changes the source's hash as well, so
\* checkVersion returns updateAvailable exactly when the source's version
\* differs from the stored one; a change of content under the same version
\* is not reported.
C28_HashTestRedundant ==
  (Returned("checkVersion") /\ WrittenBySync(last.pre) /\ existsSync(source, <<>>)) =>
    LET metadata == readVersionMetadata(last.pre)[1]
    IN /\ readSourceVersion(source) # metadata.version =>
            calculateDirectoryHash(source) # metadata.sourceHash
       /\ last.result.updateAvailable = (readSourceVersion(source) # metadata.version)

----------------------------------------------------------------------------
(* The hash input stream (C29) *)

\* C29: two trees whose entries that are not excluded differ, in structure
\* or in file content, feed different byte streams to the digest, so
\* calculateDirectoryHash returns different values for them; a directory
\* with a file in it and the empty directory beside that file are told
\* apart.
C29_StreamIdentifiesTree ==
  (TwoCalls /\ WithoutExcluded(hashed.first[1].dirPath)
                 # WithoutExcluded(hashed.again[1].dirPath)) =>
    /\ processDirectory(hashed.first[1].dirPath, <<>>)
         # processDirectory(hashed.again[1].dirPath, <<>>)
    /\ hashed.first[1].hash # hashed.again[1].hash

----------------------------------------------------------------------------
(* The selection and its localStorage entry (C23, C24, C25) *)

\* The function has resumed with a successful answer of the main process.
Succeeded(op) ==
  /\ step.op = op /\ step.phase = "resume"
  /\ step.call.result[1].success

\* The list loadProjects has just loaded.
Loaded == step.call.result[1].data[1]

\* C23: after selectProject(p) the localStorage entry is p, and after
\* selectProject(null) there is none; when loadProjects, called with no
\* project selected, loads a list that contains the id of the entry, that
\* project is selected, wherever it is in the list.
C23_SelectionSurvivesReload ==
  /\ step.op = "selectProject" =>
       /\ localStorage = step.call.arg
       /\ store.selectedProjectId = step.call.arg
  /\ (Succeeded("loadProjects") /\ step.call.store.selectedProjectId = <<>>
        /\ step.before.storage # <<>> /\ step.before.storage[1] \in Ids(Loaded)) =>
       /\ store.selectedProjectId = step.before.storage
       /\ localStorage = step.before.storage

\* The entry names the second project of the loaded list, and it is selected.
C23_Witness ==
  /\ Succeeded("loadProjects")
  /\ step.call.store.selectedProjectId = <<>>
  /\ step.before.state.selectedProjectId = <<>>
  /\ step.before.storage = <<"b">>
  /\ Loaded = <<Project("a"), Project("b")>>
  /\ store.selectedProjectId = <<"b">>

\* The second project of the list has been selected by the user.
C23_WitnessSelect ==
  /\ step.op = "selectProject"
  /\ step.call.arg = <<"b">>
  /\ step.before.storage = <<"a">>
  /\ localStorage = <<"b">>

\* The selection has been cleared by the user.
C23_WitnessDeselect ==
  /\ step.op = "selectProject"
  /\ step.call.arg = <<>>
  /\ step.before.storage # <<>>
  /\ localStorage = <<>>

\* C24: when loadProjects succeeds and no project was selected when it was
\* called, an empty list leaves the selection and the entry as they are,
\* and a list without the project of the entry (or no entry) selects the
\* first project of the list and writes it to localStorage; when a project
\* was selected when loadProjects was called, the selection is not changed.
C24_RestoreFallback ==
  Succeeded("loadProjects") =>
    /\ store.projects = Loaded
    /\ IF step.call.store.selectedProjectId # <<>> \/ Len(Loaded) = 0
       THEN /\ store.selectedProjectId = step.before.state.selectedProjectId
            /\ localStorage = step.before.storage
       ELSE (step.before.storage = <<>> \/ step.before.storage[1] \notin Ids(Loaded)) =>
              /\ store.selectedProjectId = <<Loaded[1].id>>
              /\ localStorage = <<Loaded[1].id>>

\* The entry names a project that is not in the loaded list.
C24_Witness ==
  /\ Succeeded("loadProjects")
  /\ step.call.store.selectedProjectId = <<>>
  /\ step.before.storage = <<"b">>
  /\ Loaded = <<Project("a")>>
  /\ store.selectedProjectId = <<"a">>
  /\ localStorage = <<"a">>

\* No entry: a fresh application.
C24_WitnessFresh ==
  /\ Succeeded("loadProjects")
  /\ step.call.store.selectedProjectId = <<>>
  /\ step.before.storage = <<>>
  /\ Len(Loaded) = 2
  /\ store.selectedProjectId = <<"a">>

\* An empty list.
C24_WitnessEmpty ==
  /\ Succeeded("loadProjects")
  /\ step.call.store.selectedProjectId = <<>>
  /\ step.before.storage # <<>>
  /\ Loaded = <<>>
  /\ store.selectedProjectId = <<>>

\* A project was selected: the second one stays selected though the entry
\* would now restore another.
C24_WitnessSelected ==
  /\ Succeeded("loadProjects")
  /\ step.call.store.selectedProjectId = <<"b">>
  /\ Len(Loaded) > 0
  /\ store.selectedProjectId = <<"b">>

\* C25: the store's removeProject takes the project out of the list; if it
\* was the selected project, selectedProjectId becomes null and the
\* localStorage entry is removed; otherwise selectedProjectId and the entry
\* stay as they were.
C25_StoreRemoveProject ==
  Succeeded("removeProject") =>
    LET before == step.before
        projectId == step.call.arg[1]
        kept == {i \in 1..Len(before.state.projects) :
                   before.state.projects[i].id # projectId}
    IN /\ Ids(store.projects) = {before.state.projects[i].id : i \in kept}
       /\ Len(store.projects) = Cardinality(kept)
       /\ \A i, j \in 1..Len(store.projects) :
            i < j => \E k, l \in kept :
                       /\ k < l
                       /\ before.state.projects[k] = store.projects[i]
                       /\ before.state.projects[l] = store.projects[j]
       /\ store.isLoading = before.state.isLoading
       /\ store.error = before.state.error
       /\ IF before.state.selectedProjectId = <<projectId>>
          THEN store.selectedProjectId = <<>> /\ localStorage = <<>>
          ELSE /\ store.selectedProjectId = before.state.selectedProjectId
               /\ localStorage = before.storage

\* The selected project has been removed.
C25_Witness ==
  /\ Succeeded("removeProject")
  /\ step.before.state.selectedProjectId = step.call.arg
  /\ step.before.storage = step.call.arg
  /\ Len(step.before.state.projects) = 2
  /\ Len(store.projects) = 1
  /\ localStorage = <<>>

\* Another project than the selected one has been removed.
C25_WitnessOther ==
  /\ Succeeded("removeProject")
  /\ step.before.state.selectedProjectId # <<>>
  /\ step.before.state.selectedProjectId # step.call.arg
  /\ step.call.arg[1] \in Ids(step.before.state.projects)
  /\ localStorage = step.before.state.selectedProjectId

----------------------------------------------------------------------------
(* addProject against a concurrent loadProjects (C30) *)

\* C30: a project that addProject has appended to the list stays in the
\* list until removeProject is called for it, whatever loadProjects calls
\* are awaiting their answer meanwhile.
C30_AddedProjectStays == added \subseteq Ids(store.projects)

----------------------------------------------------------------------------
(* The selection and the list (C32) *)

\* C32: in every state the store reaches through loadProjects, addProject
\* and removeProject, however their awaits interleave, selectedProjectId is
\* null or the id of a project of the list, so that getSelectedProject
\* returns undefined only when selectedProjectId is null.
C32_SelectionRefersToProject ==
  /\ store.selectedProjectId # <<>> => store.selectedProjectId[1] \in Ids(store.projects)
  /\ getSelectedProject(store) = <<>> => store.selectedProjectId = <<>>

----------------------------------------------------------------------------
(* Overlapping updateProjectSettings calls (C31) *)

\* C31: when an updateProjectSettings call returns true, the project's
\* settings in the store hold its values, and they still hold the values
\* that a call for the same project with other keys, which returned true
\* while this one was awaiting, has left in them: no update is lost,
\* however the awaits of the two calls interleave.
C31_NoLostSettingsUpdate ==
  (/\ step.op = "updateProjectSettings"
   /\ step.phase = "resume"
   /\ step.call.result[1].success)
  => LET projectId == step.call.arg[1]
         settings == step.call.arg[2]
         before == step.before.state.projects
     IN \A i \in 1..Len(store.projects) :
          store.projects[i].id = projectId =>
            /\ \A key \in DOMAIN settings :
                 store.projects[i].settings[key] = settings[key]
            /\ \A keys \in step.call.overlapped :
                 (/\ keys \cap DOMAIN settings = {}
                  /\ \A key \in keys : before[i].settings[key] = "chosen")
                 => \A key \in keys : store.projects[i].settings[key] = "chosen"

====
